---- MODULE Spec2Model ----
(***************************************************************************)
(* Model of the hive engine simulator's artifact helpers                   *)
(* (simulators/ethereum/engine/helper.go: customizeTransaction,            *)
(* calcTxsHash, customizePayload) and of the Deneb blob-gossip test suite  *)
(* (P2PBlobsGossipTestSpec and its scenario registry: testnet             *)
(* configuration, description, post-fork wait, the sidecars its slot       *)
(* actions gossip and the blobber behaviors TESTS.md documents).           *)
(*                                                                         *)
(* Abstractions.  64-bit words are modelled with WordBits bits; the        *)
(* 256-byte logs bloom with BloomByteLength bytes.  Keccak and the         *)
(* transaction trie root are modelled as injective constructors: a hash    *)
(* is the tagged tuple of what was hashed.                                 *)
(***************************************************************************)
EXTENDS Integers, Sequences, FiniteSets, TLC

VARIABLES
    pc,               \* which helper runs, and how far it has got
    clock,            \* wall-clock time, advancing between calls
    chainID,          \* package-level chain id read by customizeTransaction
    basePayload,      \* customizePayload: argument basePayload
    customData,       \* customizePayload: argument customData
    payloadOut,       \* customizePayload: outcome of the first call
    payloadOut2,      \* customizePayload: outcome of a repeated call
    baseTransaction,  \* customizeTransaction: argument baseTransaction
    pk,               \* customizeTransaction: argument pk
    customTx,         \* customizeTransaction: argument customData
    txOut,            \* customizeTransaction: outcome of the first call
    txOut2,           \* customizeTransaction: outcome of a repeated call
    signCalls,        \* number of types.SignTx invocations so far
    ts,               \* index of the scenario of the registry being run
    config,           \* testnet configuration built for the scenario
    round,            \* current round (slot) index given by the round clock
    executed,         \* rounds on which the slot action was executed
    desc,             \* outcome of the scenario's GetDescription
    maxMissedSlots,   \* the scenario's MaxMissedSlots field
    slot,             \* slots of the post-fork window observed so far
    missed,           \* slots among them that were missed
    waitErr,          \* what WaitSlotsWithMaxMissedSlots returned
    verdict,          \* how ExecutePostForkWait ended
    gossipRule,       \* rule by which a receiving peer admits a shard
    inbox,            \* per peer, the shards broadcast to it and not yet read
    store,            \* per peer, the shards it has admitted
    behavior,         \* documented blobber behavior being carried out
    trail             \* the starts and ends of its steps so far, in order

vars == <<pc, clock, chainID, basePayload, customData, payloadOut, payloadOut2,
          baseTransaction, pk, customTx, txOut, txOut2, signCalls,
          ts, config, round, executed, desc, maxMissedSlots, slot, missed,
          waitErr, verdict, gossipRule, inbox, store, behavior, trail>>

payloadVars == <<basePayload, customData, payloadOut, payloadOut2>>
txVars == <<baseTransaction, pk, customTx, txOut, txOut2, signCalls>>
schedVars == <<ts, config, round, executed>>
waitVars == <<maxMissedSlots, slot, missed, waitErr, verdict>>
gossipVars == <<gossipRule, inbox, store>>
behaviorVars == <<behavior, trail>>
suiteVars == <<desc, waitVars, gossipVars, behaviorVars>>

(***************************************************************************)
(* Bounds of the model.                                                    *)
(***************************************************************************)
WordBits == 3          \* width standing for the 64 bits of uint64 / int64
BloomByteLength == 2   \* length standing for the 256 bytes of types.Bloom
MaxOverrides == 2      \* most fields one override set names
MaxClock == 2          \* how far the wall clock advances
MaxRound == 8          \* last round the round clock emits
MaxSkip == 2           \* largest step of the round clock between two events
MaxDeclared == 4       \* largest MaxMissedSlots a scenario declares
SLOTS_PER_EPOCH == 6   \* testnet.Spec().SLOTS_PER_EPOCH of the testnet
NumPeers == 2          \* peers the blobber gossips to
BlobCount == 1         \* blobs of the block of the round

Pow2(n) == 2 ^ n
WordMod == Pow2(WordBits)

\* The value of an operation that has not run.
NoResult == [kind |-> "none"]

\* A Go pointer result: the empty sequence is nil, <<x>> points to x.
NilPtr == <<>>
PtrTo(x) == <<x>>

(***************************************************************************)
(* Integer conversions of customizePayload.                                *)
(***************************************************************************)
\* int64(x) of a uint64 x: two's complement reinterpretation.
ToInt64(x) == IF x >= Pow2(WordBits - 1) THEN x - WordMod ELSE x

Abs(x) == IF x < 0 THEN 0 - x ELSE x

\* big.Int.Uint64(): the low word of the magnitude; the sign is dropped.
BigUint64(x) == Abs(x) % WordMod

\* big.NewInt(int64(n)): the block number as it is put in the header.
HeaderNumber(n) == ToInt64(n)

(***************************************************************************)
(* Bloom: types.BytesToBloom left-pads to BloomByteLength bytes and panics *)
(* on a longer input.                                                      *)
(***************************************************************************)
BloomFits(b) == Len(b) <= BloomByteLength

BytesToBloom(b) ==
    [i \in 1..BloomByteLength |->
        IF i <= BloomByteLength - Len(b) THEN 0
        ELSE b[i - (BloomByteLength - Len(b))]]

(***************************************************************************)
(* Transactions as opaque byte strings.  A well-formed encoding is the     *)
(* two-byte string <<TxListPrefix, t>> of transaction t; anything else     *)
(* fails to decode.                                                        *)
(***************************************************************************)
TxListPrefix == 248

EncodeTx(t) == <<TxListPrefix, t>>

\* Transaction.UnmarshalBinary: [ok, tx].
UnmarshalBinary(b) ==
    IF Len(b) = 2 /\ b[1] = TxListPrefix
    THEN [ok |-> TRUE, tx |-> b[2]]
    ELSE [ok |-> FALSE, tx |-> 0]

\* types.DeriveSha over the decoded transactions: order-preserving root.
DeriveSha(txs) == <<"root", txs>>

RECURSIVE DecodeFrom(_, _, _)
\* The loop of calcTxsHash from index i on, txs being the decoded prefix.
DecodeFrom(txsBytes, i, txs) ==
    IF i > Len(txsBytes) THEN [err |-> "nil", hash |-> DeriveSha(txs)]
    ELSE LET r == UnmarshalBinary(txsBytes[i])
         IN  IF ~r.ok THEN [err |-> "decode", hash |-> DeriveSha(<<>>)]
             ELSE DecodeFrom(txsBytes, i + 1, Append(txs, r.tx))

RECURSIVE DecodeSkipping(_, _, _)
\* calcTxsHash dropping what it cannot decode instead of failing.
DecodeSkipping(txsBytes, i, txs) ==
    IF i > Len(txsBytes) THEN [err |-> "nil", hash |-> DeriveSha(txs)]
    ELSE LET r == UnmarshalBinary(txsBytes[i])
         IN  IF ~r.ok THEN DecodeSkipping(txsBytes, i + 1, txs)
             ELSE DecodeSkipping(txsBytes, i + 1, Append(txs, r.tx))

calcTxsHashLenient(txsBytes) == DecodeSkipping(txsBytes, 1, <<>>)
calcTxsHash(txsBytes) == DecodeFrom(txsBytes, 1, <<>>)

(***************************************************************************)
(* Header hash.  rlp refuses a negative *big.Int; Header.Hash ignores the  *)
(* encoder's error and hashes what was written, which is nothing.          *)
(***************************************************************************)
EmptyUncleHash == "EmptyUncleHash"

EncodeHeader(h) ==
    IF h.Number < 0 THEN <<>>
    ELSE <<h.ParentHash, h.UncleHash, h.Coinbase, h.Root, h.TxHash,
           h.ReceiptHash, h.Bloom, h.Difficulty, h.Number, h.GasLimit,
           h.GasUsed, h.Time, h.Extra, h.MixDigest, h.Nonce, h.BaseFee>>

Keccak256(bytes) == <<"keccak256", bytes>>

\* Header.Hash(): rlpHash of the header.
HeaderHash(h) == Keccak256(EncodeHeader(h))

(***************************************************************************)
(* customizePayload.                                                       *)
(***************************************************************************)
PayloadFields ==
    {"ParentHash", "FeeRecipient", "StateRoot", "ReceiptsRoot", "LogsBloom",
     "PrevRandao", "Number", "GasLimit", "GasUsed", "Timestamp", "ExtraData",
     "BaseFeePerGas", "BlockHash", "Transactions"}

\* A pointer field of CustomPayloadData is non-nil.
IsSet(cd, f) == f \in cd.present

\* The transaction sequence the call works on.
EffectiveTxs(base, cd) ==
    IF IsSet(cd, "Transactions") THEN cd.Transactions ELSE base.Transactions

\* The bloom bytes that reach types.BytesToBloom, baseline first.
BloomInputs(base, cd) ==
    IF IsSet(cd, "LogsBloom") THEN {base.LogsBloom, cd.LogsBloom}
    ELSE {base.LogsBloom}

\* The header filled from the baseline and then overwritten.
CustomPayloadHeader(base, cd, txsHash) ==
    [ParentHash  |-> IF IsSet(cd, "ParentHash") THEN cd.ParentHash
                     ELSE base.ParentHash,
     UncleHash   |-> EmptyUncleHash,
     Coinbase    |-> IF IsSet(cd, "FeeRecipient") THEN cd.FeeRecipient
                     ELSE base.FeeRecipient,
     Root        |-> IF IsSet(cd, "StateRoot") THEN cd.StateRoot
                     ELSE base.StateRoot,
     TxHash      |-> txsHash,
     ReceiptHash |-> IF IsSet(cd, "ReceiptsRoot") THEN cd.ReceiptsRoot
                     ELSE base.ReceiptsRoot,
     Bloom       |-> IF IsSet(cd, "LogsBloom") THEN BytesToBloom(cd.LogsBloom)
                     ELSE BytesToBloom(base.LogsBloom),
     Difficulty  |-> 0,
     Number      |-> IF IsSet(cd, "Number") THEN HeaderNumber(cd.Number)
                     ELSE HeaderNumber(base.Number),
     GasLimit    |-> IF IsSet(cd, "GasLimit") THEN cd.GasLimit
                     ELSE base.GasLimit,
     GasUsed     |-> IF IsSet(cd, "GasUsed") THEN cd.GasUsed
                     ELSE base.GasUsed,
     Time        |-> IF IsSet(cd, "Timestamp") THEN cd.Timestamp
                     ELSE base.Timestamp,
     Extra       |-> IF IsSet(cd, "ExtraData") THEN cd.ExtraData
                     ELSE base.ExtraData,
     MixDigest   |-> IF IsSet(cd, "PrevRandao") THEN cd.PrevRandao
                     ELSE base.PrevRandao,
     Nonce       |-> 0,
     BaseFee     |-> IF IsSet(cd, "BaseFeePerGas") THEN cd.BaseFeePerGas
                     ELSE base.BaseFeePerGas]

\* The ExecutableDataV1 returned for a header and a transaction sequence.
PayloadOfHeader(h, txs) ==
    [ParentHash    |-> h.ParentHash,
     FeeRecipient  |-> h.Coinbase,
     StateRoot     |-> h.Root,
     ReceiptsRoot  |-> h.ReceiptHash,
     LogsBloom     |-> h.Bloom,
     PrevRandao    |-> h.MixDigest,
     Number        |-> BigUint64(h.Number),
     GasLimit      |-> h.GasLimit,
     GasUsed       |-> h.GasUsed,
     Timestamp     |-> h.Time,
     ExtraData     |-> h.Extra,
     BaseFeePerGas |-> h.BaseFee,
     BlockHash     |-> HeaderHash(h),
     Transactions  |-> txs]

\* The outcome of customizePayload(basePayload, customData): kind "return"
\* carries the pair (payload, err) returned, kind "panic" is a run-time
\* panic inside types.BytesToBloom.
customizePayload(base, cd) ==
    LET txs == EffectiveTxs(base, cd)
        th  == calcTxsHash(txs)
    IN  IF th.err # "nil"
        THEN [kind |-> "return", payload |-> NilPtr, err |-> th.err]
        ELSE IF \E b \in BloomInputs(base, cd) : ~BloomFits(b)
             THEN [kind |-> "panic", payload |-> NilPtr, err |-> "nil"]
        ELSE [kind |-> "return",
              payload |-> PtrTo(PayloadOfHeader(
                              CustomPayloadHeader(base, cd, th.hash), txs)),
              err |-> "nil"]

(***************************************************************************)
(* customizeTransaction.  Numbers stand for *big.Int, uint64, addresses    *)
(* and data; NilBig stands for a nil pointer.                              *)
(***************************************************************************)
NilBig == 0 - 1

Keys == 1..2            \* private keys the caller may hold
ValueRadix == 2         \* every signed field ranges over 0..ValueRadix-1
ChainRadix == 8         \* chain ids range over 0..ChainRadix-1

TxFields == {"Nonce", "GasPrice", "Gas", "To", "Value", "Data", "Signature"}

\* A pointer field of CustomTransactionData is non-nil.
TxIsSet(cd, f) == f \in cd.present

\* Number of distinct signing hashes.
HashSpace == (ValueRadix ^ 5) * (ValueRadix + 1) * ChainRadix

\* EIP155Signer.Hash: the hash of (nonce, gasPrice, gas, to, value, data,
\* chainID, 0, 0), as an injective numbering of those fields.
SigHash(tx, chain) ==
    tx.Nonce + ValueRadix * tx.GasPrice + (ValueRadix ^ 2) * tx.Gas
    + (ValueRadix ^ 3) * tx.Value + (ValueRadix ^ 4) * tx.Data
    + (ValueRadix ^ 5) * (tx.To + 1)
    + (ValueRadix ^ 5) * (ValueRadix + 1) * chain

\* crypto.Sign with the deterministic (RFC 6979) nonce: the signature is a
\* function of hash and key alone, and determines both.
SigR(h, key) == 1 + h + HashSpace * key
SigS(h, key) == 1 + key + (Cardinality(Keys) + 1) * h
SigRecId(h, key) == (h + key) % 2

\* The key whose signature of h is (r, s, recid); 0 when there is none.
RecoverKey(h, r, s, recid) ==
    IF \E k \in Keys : SigR(h, k) = r /\ SigS(h, k) = s /\ SigRecId(h, k) = recid
    THEN CHOOSE k \in Keys :
             SigR(h, k) = r /\ SigS(h, k) = s /\ SigRecId(h, k) = recid
    ELSE 0

\* types.NewTx: a deep copy of the inner transaction, nil big integers
\* becoming zero.
ZeroIfNil(x) == IF x = NilBig THEN 0 ELSE x

NewTx(inner) ==
    [inner EXCEPT !.GasPrice = ZeroIfNil(inner.GasPrice),
                  !.Value = ZeroIfNil(inner.Value),
                  !.V = ZeroIfNil(inner.V),
                  !.R = ZeroIfNil(inner.R),
                  !.S = ZeroIfNil(inner.S)]

\* types.SignTx with a signer drawing a fresh nonce from the time of day.
SignTxFreshNonce(tx, chain, key) ==
    LET h == SigHash(tx, chain)
    IN  [tx EXCEPT !.V = SigRecId(h, key) + 35 + 2 * chain,
                   !.R = SigR(h, key) + clock * HashSpace * (Cardinality(Keys) + 1),
                   !.S = SigS(h, key)]

\* types.SignTx(tx, NewEIP155Signer(chain), key): tx.WithSignature.
SignTx(tx, chain, key) ==
    LET h == SigHash(tx, chain)
    IN  [tx EXCEPT !.V = SigRecId(h, key) + 35 + 2 * chain,
                   !.R = SigR(h, key),
                   !.S = SigS(h, key)]

\* types.Sender under the EIP-155 signer of chain: the signing key, 0 when
\* the signature is not a valid signature for that chain.
Sender(tx, chain) ==
    IF tx.V \notin {35 + 2 * chain, 36 + 2 * chain} THEN 0
    ELSE RecoverKey(SigHash(tx, chain), tx.R, tx.S, tx.V - 35 - 2 * chain)

\* modifiedTxBase after the six field blocks: overrides over the baseline,
\* signature fields still nil.
ModifiedTxBaseStaleData(base, cd) ==
    [Nonce    |-> IF TxIsSet(cd, "Nonce") THEN cd.Nonce ELSE base.Nonce,
     GasPrice |-> IF TxIsSet(cd, "GasPrice") THEN cd.GasPrice ELSE base.GasPrice,
     Gas      |-> IF TxIsSet(cd, "Gas") THEN cd.Gas ELSE base.Gas,
     To       |-> IF TxIsSet(cd, "To") THEN cd.To ELSE base.To,
     Value    |-> IF TxIsSet(cd, "Value") THEN cd.Value ELSE base.Value,
     Data     |-> base.Data,
     V |-> NilBig, R |-> NilBig, S |-> NilBig]

ModifiedTxBase(base, cd) ==
    [Nonce    |-> IF TxIsSet(cd, "Nonce") THEN cd.Nonce ELSE base.Nonce,
     GasPrice |-> IF TxIsSet(cd, "GasPrice") THEN cd.GasPrice ELSE base.GasPrice,
     Gas      |-> IF TxIsSet(cd, "Gas") THEN cd.Gas ELSE base.Gas,
     To       |-> IF TxIsSet(cd, "To") THEN cd.To ELSE base.To,
     Value    |-> IF TxIsSet(cd, "Value") THEN cd.Value ELSE base.Value,
     Data     |-> IF TxIsSet(cd, "Data") THEN cd.Data ELSE base.Data,
     V |-> NilBig, R |-> NilBig, S |-> NilBig]

\* The outcome of customizeTransaction(baseTransaction, pk, customData) on
\* chain id chain: the pair (tx, err) returned and whether SignTx was called.
\* SignTx fails only on a key that is no private key; Keys holds none.
customizeTransaction(base, key, cd, chain) ==
    LET m == ModifiedTxBase(base, cd)
    IN  IF TxIsSet(cd, "Signature")
        THEN [kind |-> "return", signed |-> FALSE, err |-> "nil",
              tx |-> PtrTo(NewTx([m EXCEPT !.V = cd.Signature.V,
                                           !.R = cd.Signature.R,
                                           !.S = cd.Signature.S]))]
        ELSE [kind |-> "return", signed |-> TRUE, err |-> "nil",
              tx |-> PtrTo(SignTx(NewTx(m), chain, key))]

(***************************************************************************)
(* The blob-gossip scenario registry (tests.go, init) and the testnet      *)
(* configuration P2PBlobsGossipTestSpec.GetTestnetConfig builds from it.   *)
(* MaxMissedSlots is left at its zero value by every entry.                *)
(***************************************************************************)
TestSpec(name, action, causesMissedSlot) ==
    [Name |-> name, BlobberSlotAction |-> action,
     BlobberActionCausesMissedSlot |-> causesMissedSlot, MaxMissedSlots |-> 0]

Tests ==
    << TestSpec("test-blob-gossiping-sanity", "nil", FALSE),
       TestSpec("test-blob-gossiping-before-block",
                "BroadcastBlobsBeforeBlock", FALSE),
       TestSpec("test-blob-gossiping-delay", "BlobGossipDelay500", FALSE),
       TestSpec("test-blob-gossiping-one-slot-delay",
                "BlobGossipDelay6000", TRUE),
       TestSpec("test-blob-gossiping-extra-blob", "ExtraBlobs", TRUE),
       TestSpec("test-blob-gossiping-extra-blob-with-incorrect-kzg-commitment",
                "ExtraBlobsIncorrectKZGCommitment", TRUE),
       TestSpec("test-blob-gossiping-extra-blob-with-incorrect-signature",
                "ExtraBlobsIncorrectSignature", FALSE),
       TestSpec("test-blob-gossiping-conflicting-blobs",
                "ConflictingBlobs", FALSE),
       TestSpec("test-blob-gossiping-max-conflicting-blobs",
                "ConflictingBlobs6", FALSE),
       TestSpec("test-gossiping-incorrectly-indexed-blobs", "SwapBlobs", TRUE) >>

\* GetDescription: the base description of the scenario with the entry
\* "Blobber Behavior" holding the description of its slot action.  Calling
\* Description() on the nil interface value is a nil dereference: the call
\* panics and no description is returned.
GetDescription(spec) ==
    IF spec.BlobberSlotAction = "nil"
    THEN [kind |-> "panic", description |-> NilPtr]
    ELSE [kind |-> "return",
          description |-> PtrTo(<<spec.Name,
                                  <<"Blobber Behavior", spec.BlobberSlotAction>>>>)]

\* blobberActionFrequency with the branch on the declaration left out.
BlobberActionFrequencyEveryRound(spec) == 1

\* blobberActionFrequency with the two branches exchanged.
BlobberActionFrequencyInverted(spec) ==
    IF spec.BlobberActionCausesMissedSlot THEN 1 ELSE 2

\* blobberActionFrequency as GetTestnetConfig computes it.
BlobberActionFrequency(spec) ==
    IF spec.BlobberActionCausesMissedSlot THEN 2 ELSE 1

GetTestnetConfig(spec) ==
    [kind |-> "config",
     EnableBlobber |-> TRUE,
     SlotAction |-> spec.BlobberSlotAction,
     SlotActionFrequency |-> BlobberActionFrequency(spec),
     AlwaysErrorValidatorResponse |-> TRUE,
     MaxDevP2PSessionReuses |-> 0,
     DisablePeerScoring |-> TRUE]

(***************************************************************************)
(* The post-fork wait of a scenario (ExecutePostForkWait).                 *)
(***************************************************************************)
WAIT_EPOCHS_AFTER_FORK == 1
MAX_MISSED_SLOTS == 3

\* GetMaxMissedSlots returning the field whatever it holds.
GetMaxMissedSlotsAsDeclared(spec) == spec.MaxMissedSlots

GetMaxMissedSlots(spec) ==
    IF spec.MaxMissedSlots > 0 THEN spec.MaxMissedSlots ELSE MAX_MISSED_SLOTS

\* The number of slots ExecutePostForkWait waits for.
WaitSlots == WAIT_EPOCHS_AFTER_FORK * SLOTS_PER_EPOCH

\* What WaitSlotsWithMaxMissedSlots returns once it has seen slotsSeen slots
\* of which missedSeen were missed: "wait" while it goes on waiting.  It
\* gives up as soon as the missed slots exceed the maximum.
WaitOutcome(slotsSeen, missedSeen, maxMissed) ==
    IF missedSeen > maxMissed THEN "budget"
    ELSE IF slotsSeen >= WaitSlots THEN "nil"
    ELSE "wait"

\* ExecutePostForkWait passing whatever the wait returned.
PostForkWaitVerdictIgnoringError(err) == "passed"

\* The end of ExecutePostForkWait: t.Fatalf on any error of the wait.
PostForkWaitVerdict(err) == IF err # "nil" THEN "failed" ELSE "passed"

(***************************************************************************)
(* Blobber behaviors, as TESTS.md documents them step by step.             *)
(***************************************************************************)
Step(op, what, ms) == [op |-> op, what |-> what, ms |-> ms]

SignBlock == Step("sign", "block", 0)
SignBothBlocks == Step("sign", "both blocks", 0)
CreateEquivocatingBlock == Step("create", "equivocating block", 0)
GenerateBlobSidecars == Step("generate", "blob sidecars", 0)
BroadcastBlobSidecars == Step("broadcast", "blob sidecars", 0)
BroadcastBlock == Step("broadcast", "block", 0)
BroadcastEquivocatingBlock == Step("broadcast", "equivocating block", 0)
InsertDelay(ms) == Step("delay", "gossip", ms)

\* The behaviors that reorder or delay the broadcasts of a round.
ReorderingBehaviors ==
    {"BroadcastBlobsBeforeBlock", "BlobGossipDelay500", "BlobGossipDelay6000",
     "EquivocatingBlock"}

\* The DelayMilliseconds the registry configures for a delay behavior.
DelayMilliseconds(name) ==
    IF name = "BlobGossipDelay6000" THEN 6000 ELSE 500

\* The behaviors with the block always broadcast first and the sidecars
\* last.
BlobberBehaviorBlockFirst(name) ==
    CASE name = "BroadcastBlobsBeforeBlock" ->
            <<SignBlock, GenerateBlobSidecars,
              BroadcastBlock, BroadcastBlobSidecars>>
      [] name \in {"BlobGossipDelay500", "BlobGossipDelay6000"} ->
            <<SignBlock, GenerateBlobSidecars,
              BroadcastBlock, InsertDelay(DelayMilliseconds(name)),
              BroadcastBlobSidecars>>
      [] name = "EquivocatingBlock" ->
            <<CreateEquivocatingBlock, SignBothBlocks, GenerateBlobSidecars,
              BroadcastBlock, InsertDelay(500),
              BroadcastEquivocatingBlock, BroadcastBlobSidecars>>

\* The steps of a behavior, in the order of its "Blobber Behavior" list.
BlobberBehavior(name) ==
    CASE name = "BroadcastBlobsBeforeBlock" ->
            <<SignBlock, GenerateBlobSidecars,
              BroadcastBlobSidecars, BroadcastBlock>>
      [] name \in {"BlobGossipDelay500", "BlobGossipDelay6000"} ->
            <<SignBlock, GenerateBlobSidecars,
              BroadcastBlock, InsertDelay(DelayMilliseconds(name)),
              BroadcastBlobSidecars>>
      [] name = "EquivocatingBlock" ->
            <<CreateEquivocatingBlock, SignBothBlocks, GenerateBlobSidecars,
              BroadcastBlobSidecars, BroadcastEquivocatingBlock,
              InsertDelay(500), BroadcastBlock>>

\* Events of the trail of a round: a step starts, a step is done.
StartOf(step) == [ev |-> "start", step |-> step]
DoneOf(step) == [ev |-> "done", step |-> step]

(***************************************************************************)
(* Blob sidecars gossiped by the slot actions ExtraBlobs and               *)
(* ConflictingBlobs, and the peers that receive them.                      *)
(***************************************************************************)
Peers == 1..NumPeers
BlobIndexes == 0..(BlobCount - 1)

\* The commitment of a blob: a digest of its content.
Digest(content) == 2 * content + 1

\* The blobs of the block, and for each a different blob of the same index.
BlobOf(i) == i + 1
OtherBlobOf(i) == BlobOf(i) + BlobCount

\* The commitments the block lists.
BlockCommitments == [i \in BlobIndexes |-> Digest(BlobOf(i))]

Sidecar(index, content, commitment, signatureOK) ==
    [index |-> index, content |-> content, commitment |-> commitment,
     signatureOK |-> signatureOK]

\* The sidecars of the block's own blobs, in index order.
CorrectSidecars ==
    [n \in 1..BlobCount |->
        Sidecar(n - 1, BlobOf(n - 1), Digest(BlobOf(n - 1)), TRUE)]

\* The extra sidecar of ExtraBlobs: another blob under the index of a blob
\* of the block, pointing to the correct block root.
ExtraSidecar(opts) ==
    Sidecar(0, OtherBlobOf(0),
            IF opts.IncorrectKZGCommitment
            THEN Digest(OtherBlobOf(0)) + 1 ELSE Digest(OtherBlobOf(0)),
            ~opts.IncorrectSignature)

\* ExtraBlobs sending the extra sidecar after the others.
ExtraBlobsExtraLast(opts, p) == CorrectSidecars \o <<ExtraSidecar(opts)>>

\* ExtraBlobs: what peer p is sent after the block, every peer the same.
ExtraBlobs(opts, p) ==
    IF opts.BroadcastExtraBlobFirst
    THEN <<ExtraSidecar(opts)>> \o CorrectSidecars
    ELSE CorrectSidecars \o <<ExtraSidecar(opts)>>

\* ConflictingBlobs: one blob index is given a second, correctly signed
\* sidecar with other content; one part of the peers is sent the block's
\* sidecars and the other part the conflicting one in their place.
ConflictingBlobs(p) ==
    IF p % 2 = 1 THEN CorrectSidecars
    ELSE [n \in 1..BlobCount |->
            IF n = 1
            THEN Sidecar(0, OtherBlobOf(0), Digest(OtherBlobOf(0)), TRUE)
            ELSE CorrectSidecars[n]]

\* The sidecars a slot action of the registry sends to peer p.
SlotActionBroadcasts(action, p) ==
    CASE action = "ExtraBlobsIncorrectKZGCommitment" ->
            ExtraBlobs([BroadcastBlockFirst |-> TRUE,
                        BroadcastExtraBlobFirst |-> TRUE,
                        IncorrectKZGCommitment |-> TRUE,
                        IncorrectSignature |-> FALSE], p)
      [] action = "ConflictingBlobs" -> ConflictingBlobs(p)

\* The scenarios of the registry that gossip such sidecars.
GossipScenarios ==
    {i \in 1..Len(Tests) :
        Tests[i].BlobberSlotAction
            \in {"ExtraBlobsIncorrectKZGCommitment", "ConflictingBlobs"}}

\* The rules by which a peer may admit a sidecar.  "commitmentChecked": the
\* index is in range, the commitment is the digest of the content and the
\* signature verifies.  "firstSigned", the rule the registry's comments
\* reason by: the index is in range and the signature verifies.  Under both
\* a sidecar for an index that is already filled is ignored.
GossipRules == {"commitmentChecked", "firstSigned"}

Admits(rule, filled, sidecar) ==
    /\ sidecar.index \in BlobIndexes
    /\ sidecar.signatureOK
    /\ rule = "commitmentChecked"
           => sidecar.commitment = Digest(sidecar.content)
    /\ \A f \in filled : f.index # sidecar.index

\* A peer has the block's data when every index is filled by a sidecar
\* with the commitment the block lists for it.
Available(filled) ==
    \A i \in BlobIndexes :
        \E f \in filled : f.index = i /\ f.commitment = BlockCommitments[i]

\* The controller's rule: the slot action runs on round r exactly when
\* r mod frequency = 0.
ActionDue(r, frequency) == r % frequency = 0

(***************************************************************************)
(* Inputs.                                                                 *)
(***************************************************************************)
\* Block numbers around the sign bit of the word.
NumberValues ==
    {0, 1, Pow2(WordBits - 1) - 1, Pow2(WordBits - 1),
     Pow2(WordBits - 1) + 1, WordMod - 1}

\* Bloom byte strings: short, exact, and one byte too long.
Blooms == {[i \in 1..n |-> 1] : n \in 0..(BloomByteLength + 1)}

MalformedTx == <<TxListPrefix>>

TxLists ==
    {<<>>, <<EncodeTx(0)>>, <<EncodeTx(1)>>, <<EncodeTx(0), EncodeTx(1)>>,
     <<EncodeTx(1), EncodeTx(0)>>, <<EncodeTx(0), MalformedTx>>,
     <<MalformedTx, EncodeTx(0)>>}

\* The header a consensus client derives from a payload it is given: the
\* number taken as the unsigned value it is.
HeaderOfPayload(p) ==
    [ParentHash  |-> p.ParentHash,
     UncleHash   |-> EmptyUncleHash,
     Coinbase    |-> p.FeeRecipient,
     Root        |-> p.StateRoot,
     TxHash      |-> calcTxsHash(p.Transactions).hash,
     ReceiptHash |-> p.ReceiptsRoot,
     Bloom       |-> BytesToBloom(p.LogsBloom),
     Difficulty  |-> 0,
     Number      |-> p.Number,
     GasLimit    |-> p.GasLimit,
     GasUsed     |-> p.GasUsed,
     Time        |-> p.Timestamp,
     Extra       |-> p.ExtraData,
     MixDigest   |-> p.PrevRandao,
     Nonce       |-> 0,
     BaseFee     |-> p.BaseFeePerGas]

\* A payload as a client hands it out: its block hash certifies its fields.
Sealed(p) == [p EXCEPT !.BlockHash = HeaderHash(HeaderOfPayload(p))]

UnsealedPayload ==
    [ParentHash |-> 0, FeeRecipient |-> 0, StateRoot |-> 0, ReceiptsRoot |-> 0,
     LogsBloom |-> [i \in 1..BloomByteLength |-> 0], PrevRandao |-> 0,
     Number |-> 1, GasLimit |-> 0, GasUsed |-> 0, Timestamp |-> 0,
     ExtraData |-> <<>>, BaseFeePerGas |-> 0, BlockHash |-> Keccak256(<<>>),
     Transactions |-> <<EncodeTx(0)>>]

BasePayloads ==
    {Sealed([UnsealedPayload EXCEPT !.Number = n]) : n \in NumberValues}
    \cup {Sealed([UnsealedPayload EXCEPT !.LogsBloom = b]) :
              b \in {c \in Blooms : BloomFits(c)}}
    \cup {[UnsealedPayload EXCEPT !.LogsBloom = b] :
              b \in {c \in Blooms : ~BloomFits(c)}}
    \cup {Sealed([UnsealedPayload EXCEPT !.Transactions = t]) : t \in TxLists}

OverrideSets == {S \in SUBSET PayloadFields : Cardinality(S) <= MaxOverrides}

\* The override sets naming the fields of S; a field outside S is nil and
\* its value here is never read.
CustomPayloadDatas(S) ==
    {[present |-> S,
      ParentHash |-> 1, FeeRecipient |-> 1, StateRoot |-> 1, ReceiptsRoot |-> 1,
      LogsBloom |-> b, PrevRandao |-> 1, Number |-> n, GasLimit |-> 1,
      GasUsed |-> 1, Timestamp |-> 1, ExtraData |-> <<1>>, BaseFeePerGas |-> 1,
      BlockHash |-> Keccak256(<<"another block">>), Transactions |-> t] :
        b \in (IF "LogsBloom" \in S THEN Blooms ELSE {<<>>}),
        n \in (IF "Number" \in S THEN NumberValues ELSE {0}),
        t \in (IF "Transactions" \in S THEN TxLists ELSE {<<>>})}

ChainIDs == {1, 7}

UnsignedBase(to, data) ==
    [Nonce |-> 0, GasPrice |-> 0, Gas |-> 0, To |-> to, Value |-> 0,
     Data |-> data, V |-> 0, R |-> 0, S |-> 0]

\* Baseline transactions, signed by the key the caller holds.
BaseTransactions(chain, key) ==
    {SignTx(UnsignedBase(to, data), chain, key) :
        to \in {NilBig, 0}, data \in {0, 1}}

SignatureParts == {NilBig, 0, 5}

TxOverrideSets == {S \in SUBSET TxFields : Cardinality(S) <= MaxOverrides}

CustomTransactionDatas(S) ==
    {[present |-> S, Nonce |-> 1, GasPrice |-> 1, Gas |-> 1, To |-> 1,
      Value |-> 1, Data |-> 1, Signature |-> [V |-> v, R |-> r, S |-> s]] :
        v \in (IF "Signature" \in S THEN SignatureParts ELSE {NilBig}),
        r \in (IF "Signature" \in S THEN SignatureParts ELSE {NilBig}),
        s \in (IF "Signature" \in S THEN SignatureParts ELSE {NilBig})}

(***************************************************************************)
(* The state machine: a run exercises one helper on inputs chosen at the   *)
(* start.                                                                  *)
(***************************************************************************)
NoPayloadRun ==
    /\ basePayload = NoResult /\ customData = NoResult
    /\ payloadOut = NoResult /\ payloadOut2 = NoResult

NoTxRun ==
    /\ baseTransaction = NoResult /\ pk = 0 /\ customTx = NoResult
    /\ txOut = NoResult /\ txOut2 = NoResult /\ signCalls = 0

NoSchedRun ==
    /\ ts = 0 /\ config = NoResult /\ round = 0 /\ executed = {}

NoWaitRun ==
    /\ maxMissedSlots = 0 /\ slot = 0 /\ missed = 0
    /\ waitErr = "none" /\ verdict = "none"

NoGossipRun ==
    /\ gossipRule = "none" /\ inbox = <<>> /\ store = <<>>

NoBehaviorRun ==
    /\ behavior = "none" /\ trail = <<>>

NoSuiteRun ==
    /\ desc = NoResult /\ NoWaitRun /\ NoGossipRun /\ NoBehaviorRun

InitPayload ==
    /\ pc = "payload"
    /\ clock = 0 /\ chainID = 0
    /\ basePayload \in BasePayloads
    /\ \E S \in OverrideSets : customData \in CustomPayloadDatas(S)
    /\ payloadOut = NoResult /\ payloadOut2 = NoResult
    /\ NoTxRun /\ NoSchedRun /\ NoSuiteRun

InitTx ==
    /\ pc = "tx"
    /\ clock = 0
    /\ chainID \in ChainIDs
    /\ pk \in Keys
    /\ baseTransaction \in BaseTransactions(chainID, pk)
    /\ \E S \in TxOverrideSets : customTx \in CustomTransactionDatas(S)
    /\ txOut = NoResult /\ txOut2 = NoResult /\ signCalls = 0
    /\ NoPayloadRun /\ NoSchedRun /\ NoSuiteRun

InitSched ==
    /\ pc = "registry"
    /\ clock = 0 /\ chainID = 0
    /\ ts \in 1..Len(Tests)
    /\ config = NoResult
    /\ round \in 0..1
    /\ executed = {}
    /\ NoPayloadRun /\ NoTxRun /\ NoSuiteRun

\* The scenario being run: an entry of the registry, with the maximum of
\* missed slots it declares.
Scenario == [Tests[ts] EXCEPT !.MaxMissedSlots = maxMissedSlots]

InitWait ==
    /\ pc = "waiting"
    /\ clock = 0 /\ chainID = 0
    /\ ts \in 1..Len(Tests)
    /\ config = NoResult /\ round = 0 /\ executed = {}
    /\ maxMissedSlots \in 0..MaxDeclared
    /\ slot = 0 /\ missed = 0
    /\ waitErr = "none" /\ verdict = "none"
    /\ desc = NoResult /\ NoGossipRun /\ NoBehaviorRun
    /\ NoPayloadRun /\ NoTxRun

InitBehavior ==
    /\ pc = "behaving"
    /\ clock = 0 /\ chainID = 0
    /\ behavior \in ReorderingBehaviors
    /\ trail = <<>>
    /\ desc = NoResult /\ NoWaitRun /\ NoGossipRun
    /\ NoPayloadRun /\ NoTxRun /\ NoSchedRun

InitGossip ==
    /\ pc = "gossip_armed"
    /\ clock = 0 /\ chainID = 0
    /\ ts \in GossipScenarios
    /\ config = NoResult /\ round = 0 /\ executed = {}
    /\ gossipRule \in GossipRules
    /\ inbox = [p \in Peers |-> <<>>]
    /\ store = [p \in Peers |-> {}]
    /\ desc = NoResult /\ NoWaitRun /\ NoBehaviorRun
    /\ NoPayloadRun /\ NoTxRun

Init ==
    \/ InitPayload \/ InitTx \/ InitSched
    \/ InitWait \/ InitBehavior \/ InitGossip

\* Time passes between two calls of a helper.
Tick ==
    /\ pc \in {"payload_once", "tx_once"}
    /\ clock < MaxClock
    /\ clock' = clock + 1
    /\ UNCHANGED <<suiteVars, pc, chainID, payloadVars, txVars, schedVars>>

CustomizePayload ==
    /\ pc = "payload"
    /\ payloadOut' = customizePayload(basePayload, customData)
    /\ pc' = "payload_once"
    /\ UNCHANGED <<suiteVars, clock, chainID, basePayload, customData, payloadOut2,
                   txVars, schedVars>>

CustomizePayloadAgain ==
    /\ pc = "payload_once"
    /\ payloadOut2' = customizePayload(basePayload, customData)
    /\ pc' = "payload_twice"
    /\ UNCHANGED <<suiteVars, clock, chainID, basePayload, customData, payloadOut,
                   txVars, schedVars>>

CustomizeTransaction ==
    /\ pc = "tx"
    /\ txOut' = customizeTransaction(baseTransaction, pk, customTx, chainID)
    /\ signCalls' = IF txOut'.signed THEN signCalls + 1 ELSE signCalls
    /\ pc' = "tx_once"
    /\ UNCHANGED <<suiteVars, clock, chainID, baseTransaction, pk, customTx, txOut2,
                   payloadVars, schedVars>>

CustomizeTransactionAgain ==
    /\ pc = "tx_once"
    /\ txOut2' = customizeTransaction(baseTransaction, pk, customTx, chainID)
    /\ signCalls' = IF txOut2'.signed THEN signCalls + 1 ELSE signCalls
    /\ pc' = "tx_twice"
    /\ UNCHANGED <<suiteVars, clock, chainID, baseTransaction, pk, customTx, txOut,
                   payloadVars, schedVars>>

\* The suite builds the scenario's testnet configuration.
BuildTestnetConfig ==
    /\ pc = "registry"
    /\ config' = GetTestnetConfig(Tests[ts])
    /\ pc' = "running"
    /\ UNCHANGED <<suiteVars, clock, chainID, payloadVars, txVars, ts, round, executed>>

\* The suite prints the scenario's description.
DescribeScenario ==
    /\ pc = "registry"
    /\ desc = NoResult
    /\ desc' = GetDescription(Tests[ts])
    /\ UNCHANGED <<pc, clock, chainID, payloadVars, txVars, schedVars,
                   waitVars, gossipVars, behaviorVars>>

\* A round boundary: the round clock emits a larger round index and the
\* controller runs the slot action when it is due.
RoundBoundary ==
    /\ pc = "running"
    /\ \E r \in (round + 1)..(round + MaxSkip) :
        /\ r <= MaxRound
        /\ round' = r
        /\ executed' = IF ActionDue(r, config.SlotActionFrequency)
                       THEN executed \cup {r} ELSE executed
    /\ UNCHANGED <<suiteVars, pc, clock, chainID, payloadVars, txVars, ts, config>>

\* A slot of the window ends, with a block or without one; the wait
\* returns when the budget is exceeded or the window is over, and
\* ExecutePostForkWait ends with it.
ObserveSlot ==
    /\ pc = "waiting"
    /\ \E slotMissed \in BOOLEAN :
        LET m == IF slotMissed THEN missed + 1 ELSE missed
            r == WaitOutcome(slot + 1, m, GetMaxMissedSlots(Scenario))
        IN  /\ slot' = slot + 1
            /\ missed' = m
            /\ IF r = "wait"
               THEN UNCHANGED <<pc, waitErr, verdict>>
               ELSE /\ waitErr' = r
                    /\ verdict' = PostForkWaitVerdict(r)
                    /\ pc' = "waited"
    /\ UNCHANGED <<clock, chainID, payloadVars, txVars, schedVars, desc,
                   maxMissedSlots, gossipVars, behaviorVars>>

\* The context of the run is cancelled, or its deadline passes, while the
\* wait is going on: the wait returns the context's error.
CancelWait ==
    /\ pc = "waiting"
    /\ waitErr' = "context"
    /\ verdict' = PostForkWaitVerdict("context")
    /\ pc' = "waited"
    /\ UNCHANGED <<clock, chainID, payloadVars, txVars, schedVars, desc,
                   maxMissedSlots, slot, missed, gossipVars, behaviorVars>>

\* The slot action begins its next step: the steps are statements of one
\* function, so the previous one has returned.
StartStep ==
    /\ pc = "behaving"
    /\ Len(trail) % 2 = 0
    /\ Len(trail) \div 2 < Len(BlobberBehavior(behavior))
    /\ trail' = Append(trail,
                       StartOf(BlobberBehavior(behavior)[Len(trail) \div 2 + 1]))
    /\ UNCHANGED <<pc, clock, chainID, payloadVars, txVars, schedVars, desc,
                   waitVars, gossipVars, behavior>>

\* The step that is running returns.
CompleteStep ==
    /\ pc = "behaving"
    /\ Len(trail) % 2 = 1
    /\ trail' = Append(trail, DoneOf(trail[Len(trail)].step))
    /\ UNCHANGED <<pc, clock, chainID, payloadVars, txVars, schedVars, desc,
                   waitVars, gossipVars, behavior>>

\* The slot action of the scenario runs: after the block, every peer is
\* sent its sidecars.
BroadcastSidecars ==
    /\ pc = "gossip_armed"
    /\ inbox' = [p \in Peers |->
                    SlotActionBroadcasts(Tests[ts].BlobberSlotAction, p)]
    /\ pc' = "gossiping"
    /\ UNCHANGED <<clock, chainID, payloadVars, txVars, schedVars, desc,
                   waitVars, gossipRule, store, behaviorVars>>

\* A peer reads the next sidecar sent to it and admits or drops it.
ReceiveSidecar ==
    /\ pc = "gossiping"
    /\ \E p \in Peers :
        /\ inbox[p] # <<>>
        /\ inbox' = [inbox EXCEPT ![p] = Tail(@)]
        /\ store' = IF Admits(gossipRule, store[p], Head(inbox[p]))
                    THEN [store EXCEPT ![p] = @ \cup {Head(inbox[p])}]
                    ELSE store
    /\ UNCHANGED <<pc, clock, chainID, payloadVars, txVars, schedVars, desc,
                   waitVars, gossipRule, behaviorVars>>

Next ==
    \/ Tick
    \/ CustomizePayload
    \/ CustomizePayloadAgain
    \/ CustomizeTransaction
    \/ CustomizeTransactionAgain
    \/ BuildTestnetConfig
    \/ DescribeScenario
    \/ RoundBoundary
    \/ ObserveSlot
    \/ CancelWait
    \/ StartStep
    \/ CompleteStep
    \/ BroadcastSidecars
    \/ ReceiveSidecar

Spec == Init /\ [][Next]_vars

(***************************************************************************)
(* Properties.                                                             *)
(***************************************************************************)
PayloadDone == pc \in {"payload_once", "payload_twice"}
TxDone == pc \in {"tx_once", "tx_twice"}

PayloadReturned == PayloadDone /\ payloadOut.payload # NilPtr
ReturnedPayload == payloadOut.payload[1]
ReturnedTx == txOut.tx[1]

\* The fields of a payload other than its block hash.
CopiedFields == PayloadFields \ {"BlockHash"}

\* Some byte string of the effective transaction sequence does not decode.
HasMalformedTx ==
    \E i \in 1..Len(EffectiveTxs(basePayload, customData)) :
        ~UnmarshalBinary(EffectiveTxs(basePayload, customData)[i]).ok

\* C1: whenever the override set names BlockHash, customizePayload returns
\* an error and no payload.
C1_BlockHashOverrideRejected ==
    (PayloadDone /\ IsSet(customData, "BlockHash"))
        => (payloadOut.kind = "return" /\ payloadOut.err # "nil"
            /\ payloadOut.payload = NilPtr)

\* C2: every field of the returned payload that the override set does not
\* name equals the same field of the baseline.
C2_UnsetFieldsCopied ==
    PayloadReturned =>
        \A f \in CopiedFields \ customData.present :
            ReturnedPayload[f] = basePayload[f]

\* C3: when the override set does not name BlockHash, the BlockHash of the
\* returned payload is the header hash recomputed from the other fields of
\* that payload, transactions root included.
C3_BlockHashRecomputed ==
    (PayloadReturned /\ ~IsSet(customData, "BlockHash"))
        => ReturnedPayload.BlockHash = HeaderHash(HeaderOfPayload(ReturnedPayload))

AllDecode(txsBytes) == calcTxsHash(txsBytes).err = "nil"

\* C5: with only Transactions overridden (by a sequence other than the
\* baseline's, the baseline's own transactions being well-formed), the
\* returned payload's transactions root and block hash differ from the
\* baseline's and every other field equals the baseline's.
C5_OnlyTransactionsOverridden ==
    (/\ PayloadReturned
     /\ customData.present = {"Transactions"}
     /\ AllDecode(basePayload.Transactions)
     /\ customData.Transactions # basePayload.Transactions)
        => /\ calcTxsHash(ReturnedPayload.Transactions).hash
                # calcTxsHash(basePayload.Transactions).hash
           /\ ReturnedPayload.BlockHash # basePayload.BlockHash
           /\ \A f \in CopiedFields \ {"Transactions"} :
                  ReturnedPayload[f] = basePayload[f]

\* C6: when a byte string of the effective transaction sequence does not
\* decode, customizePayload returns the decode error and a nil payload; and
\* it never returns a payload together with an error.
C6_DecodeErrorNoPayload ==
    PayloadDone =>
        /\ HasMalformedTx =>
               /\ payloadOut.kind = "return"
               /\ payloadOut.err = "decode"
               /\ payloadOut.payload = NilPtr
        /\ ~(payloadOut.payload # NilPtr /\ payloadOut.err # "nil")

\* C6 witness: a call whose override sequence holds a malformed byte string
\* after a well-formed one has returned the decode error.
C6_Witness ==
    /\ PayloadDone /\ HasMalformedTx
    /\ IsSet(customData, "Transactions")
    /\ UnmarshalBinary(customData.Transactions[1]).ok
    /\ payloadOut.err = "decode"

\* The signed fields of a transaction.
SignedFields == {"Nonce", "GasPrice", "Gas", "To", "Value", "Data"}

C8_SignatureAllOrNone ==
    (TxDone /\ txOut.tx # NilPtr)
        => \/ ReturnedTx.V # 0 /\ ReturnedTx.R # 0 /\ ReturnedTx.S # 0
           \/ ReturnedTx.V = 0 /\ ReturnedTx.R = 0 /\ ReturnedTx.S = 0

\* C9: the configuration built for a scenario sets the slot-action
\* frequency to 2 when the scenario is declared to cause missed slots and
\* to 1 otherwise; a scenario so declared never runs on every round.
C9_FrequencyMatchesDeclaration ==
    pc = "running" =>
        /\ Tests[ts].BlobberActionCausesMissedSlot
               => config.SlotActionFrequency = 2
        /\ ~Tests[ts].BlobberActionCausesMissedSlot
               => config.SlotActionFrequency = 1
        /\ Tests[ts].BlobberActionCausesMissedSlot
               => ~(\A r \in 1..MaxRound :
                        ActionDue(r, config.SlotActionFrequency))

\* C9 witness: the configuration of a scenario declared to cause missed
\* slots has been built.
C9_Witness ==
    /\ pc = "running"
    /\ Tests[ts].BlobberActionCausesMissedSlot
    /\ config.SlotActionFrequency = 2

\* C10: a scenario declared to cause missed slots, scheduled as
\* GetTestnetConfig schedules it, runs at a frequency of at least 2 and its
\* slot action never runs on two consecutive rounds, whatever increasing
\* round indices the round clock emits.
C10_NeverOnConsecutiveRounds ==
    (pc = "running" /\ Tests[ts].BlobberActionCausesMissedSlot)
        => /\ config.SlotActionFrequency >= 2
           /\ \A r \in executed : (r + 1) \notin executed

\* C10 witness: by the last round the slot action of such a scenario has
\* run on at least three rounds.
C10_Witness ==
    /\ pc = "running"
    /\ Tests[ts].BlobberActionCausesMissedSlot
    /\ Cardinality(executed) >= 3
    /\ round = MaxRound

\* C11 as claimed: the budget enforced is the maximum the scenario declares,
\* zero included: a wait that passes saw no more missed slots than declared,
\* and a wait that fails on the budget saw one more than declared.
C11_DeclaredBudgetEnforced ==
    (pc = "waited" /\ waitErr # "context")
        => /\ verdict = "passed" => missed <= maxMissedSlots
           /\ verdict = "failed" => missed = maxMissedSlots + 1

\* C11 amended: the budget enforced is the declared maximum when it is
\* positive and MAX_MISSED_SLOTS when the scenario declares zero; the wait
\* passes exactly when the whole window shows no more missed slots than
\* that, and fails, with the budget error, at the first slot that exceeds it.
C11_EffectiveBudgetEnforced ==
    (pc = "waited" /\ waitErr # "context")
        => LET enforced == IF maxMissedSlots > 0 THEN maxMissedSlots ELSE 3
           IN  /\ verdict \in {"passed", "failed"}
               /\ verdict = "passed"
                      => (missed <= enforced /\ slot = WaitSlots
                          /\ waitErr = "nil")
               /\ verdict = "failed"
                      => (missed = enforced + 1 /\ waitErr = "budget")

\* C11 witness: a scenario declaring zero has passed a window in which
\* MAX_MISSED_SLOTS slots were missed.
C11_Witness ==
    /\ pc = "waited" /\ maxMissedSlots = 0
    /\ verdict = "passed" /\ missed = MAX_MISSED_SLOTS

\* C11 second case reached: a scenario declaring a positive maximum has
\* failed on the slot that exceeded it.
C11_WitnessFailed ==
    /\ pc = "waited" /\ maxMissedSlots > 0
    /\ verdict = "failed" /\ missed = maxMissedSlots + 1

\* C14 as claimed: a run cancelled during the wait ends "inconclusive".
C14_CancelledInconclusive ==
    waitErr = "context" => verdict = "inconclusive"

\* C14 amended: a run cancelled during the wait is never reported as
\* passed; it is reported as failed, the way a budget failure is.
C14_CancelledNeverPassed ==
    waitErr = "context" => (pc = "waited" /\ verdict = "failed")

\* C14 witness: the run was cancelled part-way through the window while
\* within its budget.
C14_Witness ==
    /\ waitErr = "context"
    /\ slot > 0 /\ slot < WaitSlots
    /\ missed <= GetMaxMissedSlots(Scenario)

\* C17: for every scenario of the registry, the sanity scenario included,
\* GetDescription returns a description; it never ends in a panic.
C17_DescriptionAlwaysProduced ==
    desc # NoResult => (desc.kind = "return" /\ desc.description # NilPtr)

\* The block number customizePayload was asked to give the payload.
RequestedNumber ==
    IF IsSet(customData, "Number") THEN customData.Number
    ELSE basePayload.Number

\* C19: the Number of the returned payload is the 64-bit unsigned number
\* asked for, taken from the override when there is one and from the
\* baseline otherwise, for every value up to 2^64 - 1.
C19_NumberPreserved ==
    PayloadReturned => ReturnedPayload.Number = RequestedNumber

\* The step has started at position j of the trail.
StartsAt(j, step) == trail[j] = StartOf(step)

\* The step was done before position j of the trail.
DoneBefore(j, step) == \E i \in 1..(j - 1) : trail[i] = DoneOf(step)

\* The step at position j of the trail is a broadcast or a delay.
StartsBroadcastOrDelay(j) ==
    trail[j].ev = "start" /\ trail[j].step.op \in {"broadcast", "delay"}

Delivered == pc = "gossiping" /\ \A p \in Peers : inbox[p] = <<>>

\* The round is missed when no peer has the data of its block.
RoundMissed == \A p \in Peers : ~Available(store[p])

\* C16 as claimed: under the rule that admits a sidecar only if its index
\* is in range, its commitment is the digest of its content and its
\* signature verifies, the two scenarios have their declared outcomes.
C16_DeclaredOutcomesCommitmentChecked ==
    (Delivered /\ gossipRule = "commitmentChecked")
        => RoundMissed = Tests[ts].BlobberActionCausesMissedSlot

\* C16 amended: under the rule that admits the first sidecar of an index
\* whose signature verifies, whatever its commitment, the extra sidecar
\* with the incorrect commitment sent first to all peers makes the round
\* missed, and the conflicting sidecars sent to different peers do not.
C16_DeclaredOutcomesFirstSigned ==
    (Delivered /\ gossipRule = "firstSigned")
        => /\ RoundMissed = Tests[ts].BlobberActionCausesMissedSlot
           /\ RoundMissed
                  = (Tests[ts].BlobberSlotAction
                         = "ExtraBlobsIncorrectKZGCommitment")

\* C16 witness: the extra sidecar with the incorrect commitment has reached
\* every peer ahead of the block's own, and the round is missed.
C16_Witness ==
    /\ Delivered /\ gossipRule = "firstSigned"
    /\ Tests[ts].BlobberSlotAction = "ExtraBlobsIncorrectKZGCommitment"
    /\ RoundMissed
    /\ \A p \in Peers : \E f \in store[p] : f.commitment # Digest(f.content)

====
